---------------------------- MODULE Spec2Model ----------------------------
(***************************************************************************)
(* Model of the neo4j-ts client (src/src/index.ts): createNeo4jClient and  *)
(* the eight operations it returns, together with the driver, session,     *)
(* transaction and record collaborators they call (src/src/types.ts).      *)
(*                                                                         *)
(* A top-level call is a small process: it runs synchronously up to its    *)
(* next await, the collaborator answers (resolves or throws), the call     *)
(* resumes.  Every collaborator answer is a nondeterministic choice.       *)
(***************************************************************************)
EXTENDS Integers, Sequences, FiniteSets, TLC

(***************************************************************************)
(* Bounds of the model.                                                    *)
(***************************************************************************)
NumCalls    == 2   \* call slots: top-level calls that may be in flight together
MaxOps      == 2   \* longest operation list handed to batch
MaxRows     == 2   \* most records one tx.run returns
MaxAttempts == 2   \* most times the collaborator invokes one work function
MaxRuns     == 4   \* most tx.run calls the collaborator serves for one call

Calls == 1..NumCalls

(***************************************************************************)
(* Values.  A parameter map is the sequence of its <<key, value>> entries  *)
(* in insertion order (Object.keys / Object.entries order).                *)
(***************************************************************************)
EmptyMap == <<>>

Null == [null |-> TRUE]

None == [none |-> TRUE]

(***************************************************************************)
(* Inputs the callers draw from.                                           *)
(***************************************************************************)
Queries ==
  { "MATCH (n) RETURN n LIMIT 1",
    "CREATE (n:Node {name: $name}) RETURN n",
    "MATCH (n:Node) SET n.seen = true" }

ParamMaps == { EmptyMap, << <<"name", "New Node">> >> }

\* the arguments of read / write / readSingle / writeSingle: params is optional
QueryArgs ==
  { [cypher |-> q] : q \in Queries }
    \cup { [cypher |-> q, params |-> p] : q \in Queries, p \in ParamMaps }

Labels == { "Person" }

PropertyMaps ==
  { EmptyMap,
    << <<"name", "John">> >>,
    << <<"name", "John">>, <<"age", "30">> >> }

Aliases == { "n", "p" }

\* createNode(label, properties, returnAlias = 'n')
CreateNodeArgs ==
  { [label |-> l, properties |-> p] : l \in Labels, p \in PropertyMaps }
    \cup { [label |-> l, properties |-> p, returnAlias |-> a] :
             l \in Labels, p \in PropertyMaps, a \in Aliases }

\* findNodes(label, properties?, returnAlias = 'n')
FindNodesArgs ==
  { [label |-> l] : l \in Labels }
    \cup { [label |-> l, properties |-> p] : l \in Labels, p \in PropertyMaps }
    \cup { [label |-> l, properties |-> p, returnAlias |-> a] :
             l \in Labels, p \in PropertyMaps, a \in Aliases }

StartMatches == { "(a:Person {id: \"1\"})", "(x:Person {id: \"1\"})" }

EndMatches == { "(b:Movie {id: \"2\"})" }

RelationshipTypes == { "ACTED_IN" }

\* createRelationship(startNodeMatch, endNodeMatch, relationshipType, properties = {})
CreateRelationshipArgs ==
  { [startNodeMatch |-> s, endNodeMatch |-> e, relationshipType |-> t] :
      s \in StartMatches, e \in EndMatches, t \in RelationshipTypes }
    \cup { [startNodeMatch |-> s, endNodeMatch |-> e, relationshipType |-> t,
            properties |-> p] :
             s \in StartMatches, e \in EndMatches, t \in RelationshipTypes,
             p \in { EmptyMap, << <<"role", "Protagonist">> >> } }

\* the operations of a batch: { query, params?, isWrite? }
Operations ==
  { [query |-> "MATCH (n:Created) RETURN n"],
    [query |-> "MATCH (n:Created) RETURN n",
     params |-> << <<"param", "value">> >>, isWrite |-> TRUE],
    [query |-> "CREATE (n:Label2 $props) RETURN n",
     params |-> << <<"props", "value">> >>, isWrite |-> FALSE] }

RECURSIVE SeqsUpTo(_, _)
SeqsUpTo(S, n) ==
  IF n = 0 THEN { <<>> }
  ELSE LET shorter == SeqsUpTo(S, n - 1)
       IN  shorter \cup { Append(s, x) : s \in { t \in shorter : Len(t) = n - 1 }, x \in S }

Batches == SeqsUpTo(Operations, MaxOps)


(***************************************************************************)
(* Pure functions of the client.                                           *)
(***************************************************************************)

\* String.prototype.includes: sub occurs in s at some position
includes(s, sub) ==
  \E p \in 1..(Len(s) - Len(sub) + 1) : SubSeq(s, p, p + Len(sub) - 1) = sub

\* a slip: the isWrite flags decide, not the query texts
needsWrite_fromFlags(operations) ==
  \E k \in 1..Len(operations) :
    "isWrite" \in DOMAIN operations[k] /\ operations[k].isWrite

\* a slip: operations.every in place of operations.some
needsWrite_every(operations) ==
  \A k \in 1..Len(operations) : includes(operations[k].query, "CREATE")

\* operations.some(op => op.query.includes('CREATE'))
needsWrite(operations) ==
  \E k \in 1..Len(operations) : includes(operations[k].query, "CREATE")

\* the session method batch calls for its one transaction
batchMode(operations) ==
  IF needsWrite(operations) THEN "executeWrite" ELSE "executeRead"

\* op.params || {}
opParams(o) == IF "params" \in DOMAIN o THEN o.params ELSE EmptyMap

\* params: Record<string, any> = {}
paramsOrDefault(a) == IF "params" \in DOMAIN a THEN a.params ELSE EmptyMap

\* returnAlias = 'n'
aliasOrDefault(a) == IF "returnAlias" \in DOMAIN a THEN a.returnAlias ELSE "n"

\* properties: P = {} as P
propertiesOrDefault(a) == IF "properties" \in DOMAIN a THEN a.properties ELSE EmptyMap

\* a slip: the last element instead of the first
first_last(results) == IF Len(results) > 0 THEN results[Len(results)] ELSE Null

\* results.length > 0 ? results[0] : null
first(results) == IF Len(results) > 0 THEN results[1] ELSE Null

\* the template literal of createNode
createNodeCypher(label, returnAlias) ==
  "\n      CREATE (" \o returnAlias \o ":" \o label \o " $properties)"
    \o "\n      RETURN " \o returnAlias \o "\n    "

\* Array.prototype.join
RECURSIVE join(_, _)
join(parts, sep) ==
  IF Len(parts) = 0 THEN ""
  ELSE IF Len(parts) = 1 THEN parts[1]
  ELSE parts[1] \o sep \o join(Tail(parts), sep)

\* Object.entries(properties).map(([key, _]) => `${returnAlias}.${key} = $${key}`)
whereConditions(properties, returnAlias) ==
  join([k \in 1..Len(properties) |->
          returnAlias \o "." \o properties[k][1] \o " = $" \o properties[k][1]],
       " AND ")

\* !properties || Object.keys(properties).length === 0
noProperties(a) == "properties" \notin DOMAIN a \/ Len(a.properties) = 0

\* the query text findNodes builds
findNodesCypher(a) ==
  IF noProperties(a)
  THEN "MATCH (" \o aliasOrDefault(a) \o ":" \o a.label \o ") RETURN " \o aliasOrDefault(a)
  ELSE "\n      MATCH (" \o aliasOrDefault(a) \o ":" \o a.label \o ")"
         \o "\n      WHERE " \o whereConditions(a.properties, aliasOrDefault(a))
         \o "\n      RETURN " \o aliasOrDefault(a) \o "\n    "

\* a slip: the filter is passed the way createNode passes its properties
findNodesParams_wrapped(a) ==
  IF noProperties(a) THEN EmptyMap ELSE << <<"properties", a.properties>> >>

\* the parameter map findNodes passes to read: none (read's default) or properties itself
findNodesParams(a) == IF noProperties(a) THEN EmptyMap ELSE a.properties

\* a slip: the relationship is created from the end node to the start node
createRelationshipCypher_reversed(startNodeMatch, endNodeMatch, relationshipType) ==
  "\n      MATCH " \o startNodeMatch \o "\n      MATCH " \o endNodeMatch
    \o "\n      CREATE (b)-[r:" \o relationshipType \o " $properties]->(a)"
    \o "\n      RETURN a, r, b\n    "

\* the template literal of createRelationship
createRelationshipCypher(startNodeMatch, endNodeMatch, relationshipType) ==
  "\n      MATCH " \o startNodeMatch \o "\n      MATCH " \o endNodeMatch
    \o "\n      CREATE (a)-[r:" \o relationshipType \o " $properties]->(b)"
    \o "\n      RETURN a, r, b\n    "

(***************************************************************************)
(* Collaborator values.  Every tx.run hands out fresh record objects: the  *)
(* record made by the n-th run of a call as its j-th row is Record(n, j).  *)
(* A record whose toObject throws is marked bad.                           *)
(***************************************************************************)
Record(n, j, isBad) == [run |-> n, row |-> j, bad |-> isBad]

\* the Result { records } of the n-th run: rows records, the last one bad when isBad
Result(n, rows, isBad) ==
  [records |-> [j \in 1..rows |-> Record(n, j, isBad /\ j = rows)]]

\* Record.toObject(): the plain keyed value of one row
toObject(record) == [id |-> <<record.run, record.row>>]

\* records.map(record => record.toObject()) throws when a toObject throws
projectionThrows(records) == \E j \in 1..Len(records) : records[j].bad

\* records.map(record => record.toObject())
project(records) == [j \in 1..Len(records) |-> toObject(records[j])]

\* an error object: its kind and the collaborator event that raised it
Error(kind, at) == [error |-> kind, at |-> at]


\* how a try block or a promise ends
Return(v) == [t |-> "return", v |-> v]

Throw(e) == [t |-> "throw", e |-> e]

Pending == [t |-> "pending"]

(***************************************************************************)
(* State.  Every variable but nextSession and live is indexed by the call. *)
(***************************************************************************)
VARIABLES
  pc,          \* where the call stands: idle, exec, work, commit, settled, closing, done
  op,          \* the operation of the client the caller invoked
  args,        \* its arguments
  fn,          \* the function whose body holds the session: read, write or batch
  single,      \* a readSingle / writeSingle awaits the result of read / write
  cypher,      \* read / write: the parameter cypher
  params,      \* read / write: the parameter params
  operations,  \* batch: the parameter operations
  session,     \* const session: the id of the session acquired, 0 before
  results,     \* batch: const results: T[][] = []
  completion,  \* how the try block ended, before the finally block ran
  outcome,     \* how the promise the caller holds settled
  nextSession, \* driver: sessions handed out so far
  live,        \* driver: sessions handed out and not released
  attempts,    \* session: times the work function was invoked
  i,           \* work function of batch: index of the operation to run next
  workResult,  \* session: what the work function returned
  workError,   \* session: what the work function (or the commit) threw last
  txResult,    \* how executeRead / executeWrite settled
  log          \* the calls made to the collaborator, in order

callVars == <<op, args, single>>

bodyVars == <<fn, cypher, params, operations, session>>

txVars == <<attempts, i, workResult, workError, txResult>>

driverVars == <<nextSession, live>>

vars == <<pc, op, args, fn, single, cypher, params, operations, session, results,
          completion, outcome, nextSession, live, attempts, i, workResult,
          workError, txResult, log>>

Init ==
  /\ pc = [c \in Calls |-> "idle"]
  /\ op = [c \in Calls |-> "none"]
  /\ args = [c \in Calls |-> None]
  /\ fn = [c \in Calls |-> "none"]
  /\ single = [c \in Calls |-> FALSE]
  /\ cypher = [c \in Calls |-> ""]
  /\ params = [c \in Calls |-> EmptyMap]
  /\ operations = [c \in Calls |-> <<>>]
  /\ session = [c \in Calls |-> 0]
  /\ results = [c \in Calls |-> <<>>]
  /\ completion = [c \in Calls |-> Pending]
  /\ outcome = [c \in Calls |-> Pending]
  /\ nextSession = 0
  /\ live = {}
  /\ attempts = [c \in Calls |-> 0]
  /\ i = [c \in Calls |-> 0]
  /\ workResult = [c \in Calls |-> None]
  /\ workError = [c \in Calls |-> None]
  /\ txResult = [c \in Calls |-> Pending]
  /\ log = [c \in Calls |-> <<>>]

\* the calls of kind ev that call c made
Events(c, ev) == SelectSeq(log[c], LAMBDA e : e.ev = ev)

\* the number of collaborator calls c has made: stamps the error of the next one
Now(c) == Len(log[c]) + 1

(***************************************************************************)
(* read, write, batch up to their first await: const session =             *)
(* driver.session(), which may throw, then session.executeRead or          *)
(* session.executeWrite is called with the work function.                  *)
(***************************************************************************)

\* a slip: driver.session() inside the try block, so that when it throws the
\* finally block calls close on undefined and its TypeError replaces the error
Acquire_sessionInTry(c, f, method, q, p, ops) ==
  /\ pc[c] = "idle"
  /\ fn' = [fn EXCEPT ![c] = f]
  /\ cypher' = [cypher EXCEPT ![c] = q]
  /\ params' = [params EXCEPT ![c] = p]
  /\ operations' = [operations EXCEPT ![c] = ops]
  /\ \/ /\ log' = [log EXCEPT ![c] = Append(@, [ev |-> "session", s |-> 0])]
        /\ outcome' = [outcome EXCEPT ![c] = Throw(Error("TypeError", Now(c) + 1))]
        /\ pc' = [pc EXCEPT ![c] = "done"]
        /\ UNCHANGED <<session, nextSession, live>>
     \/ /\ nextSession' = nextSession + 1
        /\ live' = live \cup {nextSession + 1}
        /\ session' = [session EXCEPT ![c] = nextSession + 1]
        /\ log' = [log EXCEPT ![c] =
                     @ \o << [ev |-> "session", s |-> nextSession + 1],
                             [ev |-> method, s |-> nextSession + 1] >>]
        /\ pc' = [pc EXCEPT ![c] = "exec"]
        /\ UNCHANGED outcome
  /\ UNCHANGED <<results, completion, txVars>>

\* a slip: executeRead / executeWrite is not awaited, so that the try block
\* fails on res.records at once and the finally block closes the session while
\* the transaction is still running
Acquire_withoutAwait(c, f, method, q, p, ops) ==
  /\ pc[c] = "idle"
  /\ fn' = [fn EXCEPT ![c] = f]
  /\ cypher' = [cypher EXCEPT ![c] = q]
  /\ params' = [params EXCEPT ![c] = p]
  /\ operations' = [operations EXCEPT ![c] = ops]
  /\ nextSession' = nextSession + 1
  /\ live' = live \cup {nextSession + 1}
  /\ session' = [session EXCEPT ![c] = nextSession + 1]
  /\ log' = [log EXCEPT ![c] =
               @ \o << [ev |-> "session", s |-> nextSession + 1],
                       [ev |-> method, s |-> nextSession + 1],
                       [ev |-> "close", s |-> nextSession + 1] >>]
  /\ completion' = [completion EXCEPT ![c] = Throw(Error("TypeError", Now(c) + 2))]
  /\ pc' = [pc EXCEPT ![c] = "closing"]
  /\ UNCHANGED <<outcome, results, txVars>>

\* a slip: one session is opened for the client and every call uses it
Acquire_sharedSession(c, f, method, q, p, ops) ==
  /\ pc[c] = "idle"
  /\ fn' = [fn EXCEPT ![c] = f]
  /\ cypher' = [cypher EXCEPT ![c] = q]
  /\ params' = [params EXCEPT ![c] = p]
  /\ operations' = [operations EXCEPT ![c] = ops]
  /\ nextSession' = 1
  /\ live' = live \cup {1}
  /\ session' = [session EXCEPT ![c] = 1]
  /\ log' = [log EXCEPT ![c] =
               @ \o << [ev |-> "session", s |-> 1], [ev |-> method, s |-> 1] >>]
  /\ pc' = [pc EXCEPT ![c] = "exec"]
  /\ UNCHANGED <<outcome, results, completion, txVars>>

\* const session = driver.session(), before the try block; then, inside it,
\* session.executeRead(work) or session.executeWrite(work)
Acquire(c, f, method, q, p, ops) ==
  /\ pc[c] = "idle"
  /\ fn' = [fn EXCEPT ![c] = f]
  /\ cypher' = [cypher EXCEPT ![c] = q]
  /\ params' = [params EXCEPT ![c] = p]
  /\ operations' = [operations EXCEPT ![c] = ops]
  /\ \/ /\ log' = [log EXCEPT ![c] = Append(@, [ev |-> "session", s |-> 0])]
        /\ outcome' = [outcome EXCEPT ![c] = Throw(Error("SessionError", Now(c)))]
        /\ pc' = [pc EXCEPT ![c] = "done"]
        /\ UNCHANGED <<session, nextSession, live>>
     \/ /\ nextSession' = nextSession + 1
        /\ live' = live \cup {nextSession + 1}
        /\ session' = [session EXCEPT ![c] = nextSession + 1]
        /\ log' = [log EXCEPT ![c] =
                     @ \o << [ev |-> "session", s |-> nextSession + 1],
                             [ev |-> method, s |-> nextSession + 1] >>]
        /\ pc' = [pc EXCEPT ![c] = "exec"]
        /\ UNCHANGED outcome
  /\ UNCHANGED <<results, completion, txVars>>

read(c, q, p) == Acquire(c, "read", "executeRead", q, p, <<>>)

\* a slip: write copied from read with executeRead left in place
write_viaExecuteRead(c, q, p) == Acquire(c, "write", "executeRead", q, p, <<>>)

write(c, q, p) == Acquire(c, "write", "executeWrite", q, p, <<>>)

batch(c, ops) == Acquire(c, "batch", batchMode(ops), "", EmptyMap, ops)

readSingle(c, q, p) == read(c, q, p) /\ single' = [single EXCEPT ![c] = TRUE]

\* a slip: writeSingle opens a session of its own before it delegates to write
Acquire_afterOwnSession(c, f, method, q, p, ops) ==
  /\ pc[c] = "idle"
  /\ fn' = [fn EXCEPT ![c] = f]
  /\ cypher' = [cypher EXCEPT ![c] = q]
  /\ params' = [params EXCEPT ![c] = p]
  /\ operations' = [operations EXCEPT ![c] = ops]
  /\ nextSession' = nextSession + 2
  /\ live' = live \cup {nextSession + 1, nextSession + 2}
  /\ session' = [session EXCEPT ![c] = nextSession + 2]
  /\ log' = [log EXCEPT ![c] =
               @ \o << [ev |-> "session", s |-> nextSession + 1],
                       [ev |-> "session", s |-> nextSession + 2],
                       [ev |-> method, s |-> nextSession + 2] >>]
  /\ pc' = [pc EXCEPT ![c] = "exec"]
  /\ UNCHANGED <<outcome, results, completion, txVars>>

writeSingle_ownSession(c, q, p) ==
  /\ Acquire_afterOwnSession(c, "write", "executeWrite", q, p, <<>>)
  /\ single' = [single EXCEPT ![c] = TRUE]

writeSingle(c, q, p) == write(c, q, p) /\ single' = [single EXCEPT ![c] = TRUE]

\* a slip: the properties are passed as the parameter map itself
createNode_unwrapped(c, label, properties, returnAlias) ==
  writeSingle(c, createNodeCypher(label, returnAlias), properties)

\* return writeSingle<T>(cypher, { properties })
createNode(c, label, properties, returnAlias) ==
  writeSingle(c, createNodeCypher(label, returnAlias),
              << <<"properties", properties>> >>)

findNodes(c, a) ==
  read(c, findNodesCypher(a), findNodesParams(a)) /\ UNCHANGED single

createRelationship(c, startNodeMatch, endNodeMatch, relationshipType, properties) ==
  writeSingle(c, createRelationshipCypher(startNodeMatch, endNodeMatch, relationshipType),
              << <<"properties", properties>> >>)

(***************************************************************************)
(* The caller invokes an operation of the client.                          *)
(***************************************************************************)
Invoke(c, name, a) ==
  /\ op' = [op EXCEPT ![c] = name]
  /\ args' = [args EXCEPT ![c] = a]

CallRead(c) ==
  \E a \in QueryArgs :
    Invoke(c, "read", a) /\ read(c, a.cypher, paramsOrDefault(a)) /\ UNCHANGED single

CallWrite(c) ==
  \E a \in QueryArgs :
    Invoke(c, "write", a) /\ write(c, a.cypher, paramsOrDefault(a)) /\ UNCHANGED single

CallReadSingle(c) ==
  \E a \in QueryArgs :
    Invoke(c, "readSingle", a) /\ readSingle(c, a.cypher, paramsOrDefault(a))

CallWriteSingle(c) ==
  \E a \in QueryArgs :
    Invoke(c, "writeSingle", a) /\ writeSingle(c, a.cypher, paramsOrDefault(a))

CallCreateNode(c) ==
  \E a \in CreateNodeArgs :
    Invoke(c, "createNode", a) /\ createNode(c, a.label, a.properties, aliasOrDefault(a))

CallFindNodes(c) ==
  \E a \in FindNodesArgs : Invoke(c, "findNodes", a) /\ findNodes(c, a)

CallCreateRelationship(c) ==
  \E a \in CreateRelationshipArgs :
    /\ Invoke(c, "createRelationship", a)
    /\ createRelationship(c, a.startNodeMatch, a.endNodeMatch, a.relationshipType,
                          propertiesOrDefault(a))

CallBatch(c) ==
  \E ops \in Batches :
    Invoke(c, "batch", [operations |-> ops]) /\ batch(c, ops) /\ UNCHANGED single


(***************************************************************************)
(* The collaborator runs the transaction: session.executeRead and          *)
(* session.executeWrite invoke the work function, may invoke it again      *)
(* after a failure, and settle with its result or with an error.           *)
(***************************************************************************)

\* return { records: [] }
EmptyResult == [records |-> <<>>]

\* the work function of batch is done at once when there is no operation
workEnds(c) == fn[c] = "batch" /\ Len(operations[c]) = 0

\* the tx.run calls the work function makes when none fails
workLength(c) == IF fn[c] = "batch" THEN Len(operations[c]) ELSE 1

\* the session invokes the work function
TxBegin(c) ==
  /\ pc[c] = "exec"
  /\ attempts[c] < MaxAttempts
  /\ Len(Events(c, "run")) + workLength(c) <= MaxRuns
  /\ attempts' = [attempts EXCEPT ![c] = @ + 1]
  /\ i' = [i EXCEPT ![c] = 1]
  /\ pc' = [pc EXCEPT ![c] = IF workEnds(c) THEN "commit" ELSE "work"]
  /\ workResult' = [workResult EXCEPT ![c] = IF workEnds(c) THEN EmptyResult ELSE @]
  /\ UNCHANGED <<callVars, bodyVars, driverVars, results, completion, outcome,
                 workError, txResult, log>>

\* the session gives up: executeRead / executeWrite rejects, with the error of
\* the work function when it ran
TxReject(c) ==
  /\ pc[c] = "exec"
  /\ txResult' = [txResult EXCEPT ![c] =
                    Throw(IF workError[c] = None
                          THEN Error("TransactionError", Now(c))
                          ELSE workError[c])]
  /\ pc' = [pc EXCEPT ![c] = "settled"]
  /\ UNCHANGED <<callVars, bodyVars, driverVars, results, completion, outcome,
                 attempts, i, workResult, workError, log>>

\* the work function returned and the transaction commits: executeRead /
\* executeWrite resolves with what the work function returned
TxCommit(c) ==
  /\ pc[c] = "commit"
  /\ txResult' = [txResult EXCEPT ![c] = Return(workResult[c])]
  /\ pc' = [pc EXCEPT ![c] = "settled"]
  /\ UNCHANGED <<callVars, bodyVars, driverVars, results, completion, outcome,
                 attempts, i, workResult, workError, log>>

\* the work function returned and the commit fails
TxCommitFail(c) ==
  /\ pc[c] = "commit"
  /\ workError' = [workError EXCEPT ![c] = Error("CommitError", Now(c))]
  /\ pc' = [pc EXCEPT ![c] = "exec"]
  /\ UNCHANGED <<callVars, bodyVars, driverVars, results, completion, outcome,
                 attempts, i, workResult, txResult, log>>

\* the call tx.run(query, parameters) as logged, with the way it was answered
RunEvent(c, query, parameters, answer) ==
  [ev |-> "run", s |-> session[c], query |-> query, params |-> parameters,
   attempt |-> attempts[c], answer |-> answer]

\* the results tx.run may resolve with, as the n-th run of the call: up to
\* MaxRows records, or one record whose toObject throws
RunResults(n) ==
  { Result(n, rows, FALSE) : rows \in 0..MaxRows } \cup { Result(n, 1, TRUE) }

\* the work function of read and write: tx => tx.run<T>(cypher, params)
ReadWork(c) ==
  /\ pc[c] = "work"
  /\ fn[c] \in {"read", "write"}
  /\ \/ /\ log' = [log EXCEPT ![c] =
                     Append(@, RunEvent(c, cypher[c], params[c],
                                        Throw(Error("RunError", Now(c)))))]
        /\ workError' = [workError EXCEPT ![c] = Error("RunError", Now(c))]
        /\ pc' = [pc EXCEPT ![c] = "exec"]
        /\ UNCHANGED workResult
     \/ \E result \in RunResults(Len(Events(c, "run")) + 1) :
          /\ log' = [log EXCEPT ![c] =
                       Append(@, RunEvent(c, cypher[c], params[c], Return(result)))]
          /\ workResult' = [workResult EXCEPT ![c] = result]
          /\ pc' = [pc EXCEPT ![c] = "commit"]
          /\ UNCHANGED workError
  /\ UNCHANGED <<callVars, bodyVars, driverVars, results, completion, outcome,
                 attempts, i, txResult>>

\* a slip: results.unshift(rows)
push_atFront(list, rows) == <<rows>> \o list

\* results.push(rows)
push(list, rows) == Append(list, rows)

\* a slip: every operation is run in a transaction of its own, of the mode its
\* query asks for
BatchWork_txPerOperation(c) ==
  /\ pc[c] = "work"
  /\ fn[c] = "batch"
  /\ LET o == operations[c][i[c]]
         last == i[c] = Len(operations[c])
         begin == [ev |-> batchMode(<<o>>), s |-> session[c]]
     IN  \/ /\ log' = [log EXCEPT ![c] =
                          @ \o << begin, RunEvent(c, o.query, opParams(o),
                                                  Throw(Error("RunError", Now(c) + 1))) >>]
            /\ workError' = [workError EXCEPT ![c] = Error("RunError", Now(c) + 1)]
            /\ pc' = [pc EXCEPT ![c] = "exec"]
            /\ UNCHANGED <<results, i, workResult>>
         \/ \E result \in RunResults(Len(Events(c, "run")) + 1) :
              /\ log' = [log EXCEPT ![c] =
                           @ \o << begin, RunEvent(c, o.query, opParams(o), Return(result)) >>]
              /\ IF projectionThrows(result.records)
                 THEN /\ workError' = [workError EXCEPT ![c] =
                                         Error("ProjectionError", Now(c) + 2)]
                      /\ pc' = [pc EXCEPT ![c] = "exec"]
                      /\ UNCHANGED <<results, i, workResult>>
                 ELSE /\ results' = [results EXCEPT ![c] = push(@, project(result.records))]
                      /\ i' = [i EXCEPT ![c] = @ + 1]
                      /\ pc' = [pc EXCEPT ![c] = IF last THEN "commit" ELSE "work"]
                      /\ workResult' = [workResult EXCEPT ![c] =
                                          IF last THEN EmptyResult ELSE @]
                      /\ UNCHANGED workError
  /\ UNCHANGED <<callVars, bodyVars, driverVars, completion, outcome, attempts, txResult>>

\* one turn of the loop of the work function of batch: for (const op of operations)
BatchWork(c) ==
  /\ pc[c] = "work"
  /\ fn[c] = "batch"
  /\ LET o == operations[c][i[c]]
         last == i[c] = Len(operations[c])
     IN  \/ /\ log' = [log EXCEPT ![c] =
                          Append(@, RunEvent(c, o.query, opParams(o),
                                             Throw(Error("RunError", Now(c)))))]
            /\ workError' = [workError EXCEPT ![c] = Error("RunError", Now(c))]
            /\ pc' = [pc EXCEPT ![c] = "exec"]
            /\ UNCHANGED <<results, i, workResult>>
         \/ \E result \in RunResults(Len(Events(c, "run")) + 1) :
              /\ log' = [log EXCEPT ![c] =
                           Append(@, RunEvent(c, o.query, opParams(o), Return(result)))]
              /\ IF projectionThrows(result.records)
                 THEN /\ workError' = [workError EXCEPT ![c] =
                                         Error("ProjectionError", Now(c))]
                      /\ pc' = [pc EXCEPT ![c] = "exec"]
                      /\ UNCHANGED <<results, i, workResult>>
                 ELSE /\ results' = [results EXCEPT ![c] = push(@, project(result.records))]
                      /\ i' = [i EXCEPT ![c] = @ + 1]
                      /\ pc' = [pc EXCEPT ![c] = IF last THEN "commit" ELSE "work"]
                      /\ workResult' = [workResult EXCEPT ![c] =
                                          IF last THEN EmptyResult ELSE @]
                      /\ UNCHANGED workError
  /\ UNCHANGED <<callVars, bodyVars, driverVars, completion, outcome, attempts, txResult>>

(***************************************************************************)
(* The call resumes after await session.executeRead / executeWrite: the    *)
(* rest of the try block, then the finally block calls session.close().    *)
(***************************************************************************)

\* read, write: const values = res.records.map(record => record.toObject()); return values
tryRead(c, tx) ==
  IF tx.t = "throw" THEN tx
  ELSE IF projectionThrows(tx.v.records) THEN Throw(Error("ProjectionError", Now(c)))
  ELSE Return(project(tx.v.records))

\* a slip: the error of the transaction is swallowed and what was collected is returned
tryBatch_partialResults(c, tx) == Return(results[c])

\* batch: return results
tryBatch(c, tx) == IF tx.t = "throw" THEN tx ELSE Return(results[c])

tryBlock(c) ==
  IF fn[c] = "batch" THEN tryBatch(c, txResult[c]) ELSE tryRead(c, txResult[c])

\* a slip: errors are wrapped in an error of the client
settle_translating(c, done) ==
  IF done.t = "throw" THEN Throw(Error("Neo4jClientError", done.e.at))
  ELSE IF single[c] THEN Return(first(done.v)) ELSE done

\* what the caller gets once read / write / batch has settled with done: readSingle
\* and writeSingle map a returned list to its first element
settle(c, done) ==
  IF single[c] /\ done.t = "return" THEN Return(first(done.v)) ELSE done

\* a slip: close at the end of the try block instead of in a finally block
Resume_withoutFinally(c) ==
  /\ pc[c] = "settled"
  /\ completion' = [completion EXCEPT ![c] = tryBlock(c)]
  /\ IF tryBlock(c).t = "throw"
     THEN /\ outcome' = [outcome EXCEPT ![c] = settle(c, tryBlock(c))]
          /\ pc' = [pc EXCEPT ![c] = "done"]
          /\ UNCHANGED log
     ELSE /\ log' = [log EXCEPT ![c] = Append(@, [ev |-> "close", s |-> session[c]])]
          /\ pc' = [pc EXCEPT ![c] = "closing"]
          /\ UNCHANGED outcome
  /\ UNCHANGED <<callVars, bodyVars, driverVars, results, txVars>>

\* a slip: close at the end of the try block and again in the finally block
Resume_closingTwice(c) ==
  /\ pc[c] = "settled"
  /\ completion' = [completion EXCEPT ![c] = tryBlock(c)]
  /\ log' = [log EXCEPT ![c] =
               @ \o IF tryBlock(c).t = "return"
                    THEN << [ev |-> "close", s |-> session[c]],
                            [ev |-> "close", s |-> session[c]] >>
                    ELSE << [ev |-> "close", s |-> session[c]] >>]
  /\ pc' = [pc EXCEPT ![c] = "closing"]
  /\ UNCHANGED <<callVars, bodyVars, driverVars, results, outcome, txVars>>

\* a slip: a catch block that starts the transaction again when it failed,
\* without limit
Resume_retrying(c) ==
  /\ pc[c] = "settled"
  /\ IF txResult[c].t = "throw"
     THEN /\ pc' = [pc EXCEPT ![c] = "exec"]
          /\ UNCHANGED <<completion, log>>
     ELSE /\ completion' = [completion EXCEPT ![c] = tryBlock(c)]
          /\ log' = [log EXCEPT ![c] = Append(@, [ev |-> "close", s |-> session[c]])]
          /\ pc' = [pc EXCEPT ![c] = "closing"]
  /\ UNCHANGED <<callVars, bodyVars, driverVars, results, outcome, txVars>>

\* finally { await session.close() }: close is called however the try block ended
Resume(c) ==
  /\ pc[c] = "settled"
  /\ completion' = [completion EXCEPT ![c] = tryBlock(c)]
  /\ log' = [log EXCEPT ![c] = Append(@, [ev |-> "close", s |-> session[c]])]
  /\ pc' = [pc EXCEPT ![c] = "closing"]
  /\ UNCHANGED <<callVars, bodyVars, driverVars, results, outcome, txVars>>

\* session.close() resolves: the promise settles the way the try block ended
CloseResolve(c) ==
  /\ pc[c] = "closing"
  /\ live' = live \ {session[c]}
  /\ outcome' = [outcome EXCEPT ![c] = settle(c, completion[c])]
  /\ pc' = [pc EXCEPT ![c] = "done"]
  /\ UNCHANGED <<callVars, bodyVars, nextSession, results, completion, txVars, log>>

\* a slip: when the try block failed, the error of close is dropped in favour
\* of the first error
CloseThrow_keepingFirstError(c) ==
  /\ pc[c] = "closing"
  /\ outcome' = [outcome EXCEPT ![c] =
                   settle(c, IF completion[c].t = "throw" THEN completion[c]
                             ELSE Throw(Error("CloseError", Now(c))))]
  /\ pc' = [pc EXCEPT ![c] = "done"]
  /\ UNCHANGED <<callVars, bodyVars, driverVars, results, completion, txVars, log>>

\* session.close() throws: its error replaces the way the try block ended
CloseThrow(c) ==
  /\ pc[c] = "closing"
  /\ outcome' = [outcome EXCEPT ![c] = settle(c, Throw(Error("CloseError", Now(c))))]
  /\ pc' = [pc EXCEPT ![c] = "done"]
  /\ UNCHANGED <<callVars, bodyVars, driverVars, results, completion, txVars, log>>

(***************************************************************************)
(* Specification: a caller issues one top-level call, whatever operation   *)
(* and arguments, and the collaborator answers it, whatever way.           *)
(***************************************************************************)

\* the call observed alone takes the first slot: no other call is ever issued
Alone(c) == \A d \in Calls : c <= d

Next ==
  \E c \in Calls :
    \/ Alone(c) /\ CallRead(c)
    \/ Alone(c) /\ CallWrite(c)
    \/ Alone(c) /\ CallReadSingle(c)
    \/ Alone(c) /\ CallWriteSingle(c)
    \/ Alone(c) /\ CallCreateNode(c)
    \/ Alone(c) /\ CallFindNodes(c)
    \/ Alone(c) /\ CallCreateRelationship(c)
    \/ Alone(c) /\ CallBatch(c)
    \/ TxBegin(c)
    \/ TxReject(c)
    \/ TxCommit(c)
    \/ TxCommitFail(c)
    \/ ReadWork(c)
    \/ BatchWork(c)
    \/ Resume(c)
    \/ CloseResolve(c)
    \/ CloseThrow(c)

Spec == Init /\ [][Next]_vars


(***************************************************************************)
(* Specification of concurrent calls: every call slot issues a call, a     *)
(* read or a batch, and the steps of the calls interleave in every order.  *)
(* The session invokes each work function once and tx.run answers with at  *)
(* most one record.                                                        *)
(***************************************************************************)

\* the read each concurrent caller may issue
ConcurrentQueryArgs == { [cypher |-> "MATCH (n) RETURN n LIMIT 1"] }

\* the batch each concurrent caller may issue
ConcurrentBatches ==
  { << [query |-> "CREATE (n:Label2 $props) RETURN n",
        params |-> << <<"props", "value">> >>, isWrite |-> FALSE] >> }

ConcurrentRead(c) ==
  \E a \in ConcurrentQueryArgs :
    Invoke(c, "read", a) /\ read(c, a.cypher, paramsOrDefault(a)) /\ UNCHANGED single

ConcurrentBatch(c) ==
  \E ops \in ConcurrentBatches :
    Invoke(c, "batch", [operations |-> ops]) /\ batch(c, ops) /\ UNCHANGED single

\* the work function of c has not been invoked yet
FirstAttempt(c) == attempts[c] = 0

\* every tx.run of c that resolved did so with at most one record
ShortAnswers(c) ==
  \A k \in 1..Len(log[c]) :
    (log[c][k].ev = "run" /\ log[c][k].answer.t = "return") =>
      Len(log[c][k].answer.v.records) <= 1

NextConcurrent ==
  \E c \in Calls :
    \/ ConcurrentRead(c)
    \/ ConcurrentBatch(c)
    \/ FirstAttempt(c) /\ TxBegin(c)
    \/ TxReject(c)
    \/ TxCommit(c)
    \/ TxCommitFail(c)
    \/ ReadWork(c) /\ ShortAnswers(c)'
    \/ BatchWork(c) /\ ShortAnswers(c)'
    \/ Resume(c)
    \/ CloseResolve(c)
    \/ CloseThrow(c)

SpecConcurrent == Init /\ [][NextConcurrent]_vars

(***************************************************************************)
(* Specification with fairness: every call to the collaborator that is     *)
(* pending is eventually answered (it returns or throws), and a call whose *)
(* await has settled eventually resumes (the event loop runs it).          *)
(***************************************************************************)

\* the collaborator answers a pending call of c
Answer(c) ==
  \/ TxBegin(c)
  \/ TxReject(c)
  \/ TxCommit(c)
  \/ TxCommitFail(c)
  \/ ReadWork(c)
  \/ BatchWork(c)
  \/ CloseResolve(c)
  \/ CloseThrow(c)

\* where every call stands and how many collaborator calls it has made: every
\* step of a call changes it
position == <<pc, [c \in Calls |-> Len(log[c])]>>

Fairness == \A c \in Calls : WF_position(Answer(c)) /\ WF_position(Resume(c))

SpecFair == Init /\ [][Next]_vars /\ Fairness

(***************************************************************************)
(* Properties.                                                             *)
(***************************************************************************)

\* the calls whose body acquired a session
Acquired(c) == session[c] # 0

\* the number of calls of kind ev that call c made
Count(c, ev) == Len(Events(c, ev))

\* the transactions call c started
Transactions(c) == Count(c, "executeRead") + Count(c, "executeWrite")

\* C1: a call of read or write (made directly or through a derived operation)
\* that acquired a session never calls session.close() twice, calls it on the
\* session it acquired, and has called it exactly once when it has settled,
\* whether its transaction and projection succeeded or threw.
C1_ReadWriteCloseOnce ==
  \A c \in Calls :
    (fn[c] \in {"read", "write"} /\ Acquired(c)) =>
      /\ Count(c, "close") <= 1
      /\ \A k \in 1..Len(log[c]) : log[c][k].ev = "close" => log[c][k].s = session[c]
      /\ pc[c] = "done" => Count(c, "close") = 1

\* a write whose transaction threw has settled, having closed its session once
C1_Witness ==
  \E c \in Calls :
    /\ op[c] = "write" /\ pc[c] = "done" /\ Acquired(c)
    /\ completion[c].t = "throw"
    /\ completion[c].e.error = "RunError"
    /\ Count(c, "close") = 1

\* C4: a batch call acquires one session for the whole batch and closes it
\* exactly once; close is called only once the transaction has settled, after
\* every operation has completed or after the first failure, and nothing is
\* run after it; the session is closed on the success and on the failure path.
C4_BatchCloseOnce ==
  \A c \in Calls :
    (fn[c] = "batch" /\ pc[c] # "idle") =>
      /\ Count(c, "session") = 1
      /\ Count(c, "close") <= 1
      /\ Acquired(c) =>
           /\ pc[c] = "done" => Count(c, "close") = 1
           /\ Count(c, "close") = 1 =>
                /\ log[c][Len(log[c])] = [ev |-> "close", s |-> session[c]]
                /\ txResult[c].t \in {"return", "throw"}
                /\ txResult[c].t = "return" => i[c] = Len(operations[c]) + 1
                /\ (txResult[c].t = "throw" /\ txResult[c].e.error = "RunError") =>
                     LET ran == Events(c, "run")
                     IN  ran[Len(ran)].answer = txResult[c]

\* a batch of two operations whose second run threw has settled with its session closed once
C4_Witness ==
  \E c \in Calls :
    /\ fn[c] = "batch" /\ pc[c] = "done" /\ Len(operations[c]) = 2
    /\ txResult[c].t = "throw" /\ txResult[c].e.error = "RunError"
    /\ Len(results[c]) = 1
    /\ Count(c, "close") = 1


\* C2: in a batch call with a non-empty operation list whose work function is
\* executed once, tx.run is invoked once per operation, in input order, with
\* the operation's query and its params (an empty map when it has none); when
\* the call returns, every run has succeeded and the returned list has one
\* entry per operation, entry k being the projected rows of the run of
\* operation k.
C2_BatchResultsInOrder ==
  \A c \in Calls :
    (fn[c] = "batch" /\ Len(operations[c]) > 0 /\ attempts[c] = 1) =>
      LET ran == Events(c, "run")
          ops == operations[c]
      IN  /\ Len(ran) <= Len(ops)
          /\ \A k \in 1..Len(ran) :
               /\ ran[k].query = ops[k].query
               /\ ran[k].params =
                    IF "params" \in DOMAIN ops[k] THEN ops[k].params ELSE EmptyMap
          /\ outcome[c].t = "return" =>
               /\ Len(ran) = Len(ops)
               /\ Len(outcome[c].v) = Len(ops)
               /\ \A k \in 1..Len(ops) :
                    /\ ran[k].answer.t = "return"
                    /\ Len(outcome[c].v[k]) = Len(ran[k].answer.v.records)
                    /\ \A j \in 1..Len(ran[k].answer.v.records) :
                         outcome[c].v[k][j] = toObject(ran[k].answer.v.records[j])

\* a batch of two operations, one without params, has returned two different
\* non-empty row lists after one execution of its work function
C2_Witness ==
  \E c \in Calls :
    /\ fn[c] = "batch" /\ attempts[c] = 1 /\ outcome[c].t = "return"
    /\ Len(operations[c]) = 2
    /\ "params" \notin DOMAIN operations[c][1]
    /\ "params" \in DOMAIN operations[c][2]
    /\ Len(outcome[c].v[1]) = 2
    /\ Len(outcome[c].v[2]) = 1

\* the query texts of a batch
QueryTexts(ops) == [k \in 1..Len(ops) |-> ops[k].query]

\* some query text has the letters CREATE at some position
SomeTextHasCreate(texts) ==
  \E k \in 1..Len(texts) :
    \E p \in 1..(Len(texts[k]) - 5) : SubSeq(texts[k], p, p + 5) = "CREATE"

\* C3: a batch call that acquired its session runs its transaction with
\* session.executeWrite if some operation's query text contains CREATE and with
\* session.executeRead otherwise; every batch with the same query texts,
\* whatever its isWrite flags and params, selects the same mode.
C3_BatchModeFromQueryTexts ==
  \A c \in Calls :
    (fn[c] = "batch" /\ Acquired(c)) =>
      LET create == SomeTextHasCreate(QueryTexts(operations[c]))
      IN  /\ Count(c, "executeWrite") = IF create THEN 1 ELSE 0
          /\ Count(c, "executeRead") = IF create THEN 0 ELSE 1
          /\ \A b \in Batches :
               QueryTexts(b) = QueryTexts(operations[c]) =>
                 Count(c, batchMode(b)) = 1

\* a batch whose only flagged operation says isWrite = TRUE and whose texts hold
\* no CREATE (one holds Created) has run in read mode
C3_Witness ==
  \E c \in Calls :
    /\ fn[c] = "batch" /\ pc[c] = "done" /\ Len(operations[c]) = 2
    /\ \E k \in 1..2 : "isWrite" \in DOMAIN operations[c][k] /\ operations[c][k].isWrite
    /\ \E k \in 1..2 : "isWrite" \notin DOMAIN operations[c][k]
    /\ Count(c, "executeRead") = 1
    /\ Count(c, "executeWrite") = 0
    /\ Count(c, "run") >= 2


\* C5 as stated: once a batch call has settled, a tx.run that failed is the last
\* tx.run of the call, the call has rejected with the error of that run, and
\* the session has been closed.
C5_AsStated ==
  \A c \in Calls :
    (fn[c] = "batch" /\ pc[c] = "done") =>
      LET ran == Events(c, "run")
      IN  \A k \in 1..Len(ran) :
            ran[k].answer.t = "throw" =>
              /\ k = Len(ran)
              /\ outcome[c] = ran[k].answer
              /\ Count(c, "close") = 1

\* C5, amended: a tx.run that fails is the last tx.run of that invocation of
\* the work function of batch; when the collaborator rejects the transaction
\* with the error of that run (it does not invoke the work function again), no
\* tx.run follows at all, the call closes its session exactly once and returns
\* no result list: it rejects with that error when close resolves and with the
\* error of close when close throws.
C5_BatchStopsAtFailure ==
  \A c \in Calls :
    fn[c] = "batch" =>
      LET ran == Events(c, "run")
      IN  \A k \in 1..Len(ran) :
            ran[k].answer.t = "throw" =>
              /\ k < Len(ran) => ran[k + 1].attempt > ran[k].attempt
              /\ txResult[c] = ran[k].answer =>
                   /\ k = Len(ran)
                   /\ pc[c] = "done" =>
                        /\ Count(c, "close") = 1
                        /\ outcome[c].t = "throw"
                        /\ session[c] \notin live => outcome[c] = ran[k].answer
                        /\ session[c] \in live => outcome[c].e.error = "CloseError"

\* a batch of two operations whose first run failed, not retried, has rejected
\* with the error of that run after closing; the second operation never ran
C5_Witness ==
  \E c \in Calls :
    /\ fn[c] = "batch" /\ pc[c] = "done" /\ Len(operations[c]) = 2
    /\ Count(c, "run") = 1
    /\ Events(c, "run")[1].answer.t = "throw"
    /\ outcome[c] = Events(c, "run")[1].answer
    /\ session[c] \notin live
    /\ Count(c, "close") = 1

\* C6: a call that acquired a session starts exactly one transaction
\* (executeRead or executeWrite is invoked once: no retry by this layer); its
\* promise settles only after session.close() has been called; and when the
\* transaction rejected and close resolved, the caller receives exactly the
\* error the transaction rejected with.
C6_ErrorUnchangedAfterClose ==
  \A c \in Calls :
    Acquired(c) =>
      /\ Transactions(c) = 1
      /\ outcome[c].t # "pending" => Count(c, "close") = 1
      /\ (pc[c] = "done" /\ txResult[c].t = "throw" /\ session[c] \notin live) =>
           outcome[c] = txResult[c]

\* a readSingle whose run failed in both attempts of the collaborator has
\* rejected with the error of the second run, its session closed
C6_Witness ==
  \E c \in Calls :
    /\ op[c] = "readSingle" /\ pc[c] = "done" /\ session[c] \notin live
    /\ attempts[c] = 2
    /\ txResult[c].t = "throw" /\ txResult[c].e.error = "RunError"
    /\ outcome[c] = Events(c, "run")[2].answer
    /\ Transactions(c) = 1

\* C7: when driver.session() throws, the call rejects with that error and makes
\* no other call to the collaborator: no transaction is started and
\* session.close() is not called.
C7_SessionFailurePropagates ==
  \A c \in Calls :
    (pc[c] # "idle" /\ ~Acquired(c)) =>
      /\ log[c] = << [ev |-> "session", s |-> 0] >>
      /\ pc[c] = "done"
      /\ outcome[c] = Throw(Error("SessionError", 1))
      /\ Transactions(c) = 0 /\ Count(c, "close") = 0 /\ Count(c, "run") = 0
      /\ nextSession = 0 /\ live = {}

\* a batch call whose driver.session() threw has rejected
C7_Witness ==
  \E c \in Calls :
    /\ op[c] = "batch" /\ Len(operations[c]) = 2 /\ pc[c] = "done"
    /\ ~Acquired(c)
    /\ outcome[c].t = "throw" /\ outcome[c].e.error = "SessionError"


\* C8: when readSingle or writeSingle returns, it returns null if and only if
\* the list its read or write returned is empty, and the element at index 0 of
\* that list otherwise.
C8_SingleIsFirstOrNull ==
  \A c \in Calls :
    (op[c] \in {"readSingle", "writeSingle"} /\ outcome[c].t = "return") =>
      /\ completion[c].t = "return"
      /\ outcome[c].v = Null <=> Len(completion[c].v) = 0
      /\ Len(completion[c].v) > 0 => outcome[c].v = completion[c].v[1]

\* a readSingle whose read returned two rows has returned the first of them
C8_Witness ==
  \E c \in Calls :
    /\ op[c] = "readSingle" /\ outcome[c].t = "return"
    /\ Len(completion[c].v) = 2
    /\ completion[c].v[1] # completion[c].v[2]
    /\ outcome[c].v = completion[c].v[1]

\* C9: every top-level call, whatever the operation, invokes driver.session()
\* exactly once: the operations that delegate to read or write open no session
\* of their own, and a batch opens one session for all its operations.
C9_OneSessionPerCall ==
  /\ \A c \in Calls :
       Count(c, "session") = IF pc[c] = "idle" THEN 0 ELSE 1
  /\ nextSession = Cardinality({ c \in Calls : Acquired(c) })

\* a createRelationship, which reaches write through writeSingle, has returned
\* having opened one session, the only one the driver handed out
C9_Witness ==
  \E c \in Calls :
    /\ op[c] = "createRelationship" /\ pc[c] = "done" /\ outcome[c].t = "return"
    /\ Acquired(c) /\ Count(c, "session") = 1
    /\ nextSession = 1

\* the operations that read, and those that write
ReadOperations == { "read", "readSingle", "findNodes" }

WriteOperations == { "write", "writeSingle", "createNode", "createRelationship" }

\* C10: read, readSingle and findNodes call session.executeRead exactly once
\* and never session.executeWrite; write, writeSingle, createNode and
\* createRelationship call session.executeWrite exactly once and never
\* session.executeRead (a call whose driver.session() threw calls neither).
C10_ModePerOperation ==
  \A c \in Calls :
    LET once == IF Acquired(c) THEN 1 ELSE 0
    IN  /\ op[c] \in ReadOperations =>
             Count(c, "executeRead") = once /\ Count(c, "executeWrite") = 0
        /\ op[c] \in WriteOperations =>
             Count(c, "executeWrite") = once /\ Count(c, "executeRead") = 0

\* a createNode has settled after one executeWrite and no executeRead
C10_Witness ==
  \E c \in Calls :
    /\ op[c] = "createNode" /\ pc[c] = "done" /\ outcome[c].t = "return"
    /\ Count(c, "executeWrite") = 1
    /\ Count(c, "executeRead") = 0
    /\ Count(c, "run") = 1


\* sub stands in s at position p
Occurs(sub, s, p) ==
  /\ p >= 1
  /\ p + Len(sub) - 1 <= Len(s)
  /\ SubSeq(s, p, p + Len(sub) - 1) = sub

\* s contains sub
Contains(s, sub) == \E p \in 1..Len(s) : Occurs(sub, s, p)

\* s contains x and, after it, y
ContainsThen(s, x, y) ==
  \E p \in 1..Len(s) :
    Occurs(x, s, p) /\ \E q \in (p + Len(x))..Len(s) : Occurs(y, s, q)

\* the conditions alias.k = $k of the first n keys of a map, in key order,
\* joined by AND
RECURSIVE ConditionsInKeyOrder(_, _, _)
ConditionsInKeyOrder(map, alias, n) ==
  IF n = 0 THEN ""
  ELSE (IF n = 1 THEN "" ELSE ConditionsInKeyOrder(map, alias, n - 1) \o " AND ")
         \o alias \o "." \o map[n][1] \o " = $" \o map[n][1]

\* the alias a call of findNodes or createNode asks for
AliasAskedFor(c) == IF "returnAlias" \in DOMAIN args[c] THEN args[c].returnAlias ELSE "n"

\* C11: every tx.run of a findNodes call receives, when properties is absent
\* or has no keys, exactly the query MATCH (alias:label) RETURN alias and an
\* empty parameter map; when properties has keys, a query that contains
\* MATCH (alias:label), then a WHERE clause of one condition alias.k = $k per
\* key, in key order, joined by AND, then RETURN alias, and the properties map
\* itself as the parameter map.
C11_FindNodesQuery ==
  \A c \in Calls :
    op[c] = "findNodes" =>
      LET a == args[c]
          alias == AliasAskedFor(c)
          ran == Events(c, "run")
          match == "MATCH (" \o alias \o ":" \o a.label \o ")"
      IN  \A k \in 1..Len(ran) :
            IF "properties" \notin DOMAIN a \/ Len(a.properties) = 0
            THEN /\ ran[k].query = match \o " RETURN " \o alias
                 /\ ran[k].params = <<>>
            ELSE LET where == "WHERE " \o ConditionsInKeyOrder(a.properties, alias,
                                                                Len(a.properties))
                 IN  /\ ContainsThen(ran[k].query, match, where)
                     /\ ContainsThen(ran[k].query, where \o "\n", "RETURN " \o alias)
                     /\ ran[k].params = a.properties

\* a findNodes with the two keys name, age and the alias p has run the query
\* whose WHERE clause is p.name = $name AND p.age = $age, with the two
\* properties as its parameters
C11_Witness ==
  \E c \in Calls :
    /\ op[c] = "findNodes" /\ Count(c, "run") = 1
    /\ "properties" \in DOMAIN args[c]
    /\ args[c].properties = << <<"name", "John">>, <<"age", "30">> >>
    /\ AliasAskedFor(c) = "p"
    /\ Contains(Events(c, "run")[1].query, "WHERE p.name = $name AND p.age = $age")
    /\ Events(c, "run")[1].params = args[c].properties


\* C12: every tx.run of a createNode call receives a query that contains
\* CREATE (alias:label $properties) and, after it, RETURN alias, and in which
\* no property value occurs, with the parameter map of the one key properties
\* whose value is the properties argument; when the call returns, it returns
\* the first projected row of the run that was committed, or null when that
\* run had no row.
C12_CreateNodeQuery ==
  \A c \in Calls :
    op[c] = "createNode" =>
      LET a == args[c]
          alias == AliasAskedFor(c)
          ran == Events(c, "run")
      IN  /\ \A k \in 1..Len(ran) :
               /\ ContainsThen(ran[k].query,
                               "CREATE (" \o alias \o ":" \o a.label \o " $properties)",
                               "RETURN " \o alias)
               /\ \A j \in 1..Len(a.properties) :
                    ~Contains(ran[k].query, a.properties[j][2])
               /\ Len(ran[k].params) = 1
               /\ ran[k].params[1] = <<"properties", a.properties>>
          /\ outcome[c].t = "return" =>
               LET rows == ran[Len(ran)].answer.v.records
               IN  outcome[c].v = IF Len(rows) = 0 THEN Null ELSE toObject(rows[1])

\* a createNode with two properties and the alias p has run its query with
\* the properties under the key properties and returned the first of two rows
C12_Witness ==
  \E c \in Calls :
    /\ op[c] = "createNode" /\ outcome[c].t = "return"
    /\ Len(args[c].properties) = 2 /\ AliasAskedFor(c) = "p"
    /\ Count(c, "run") = 1
    /\ Contains(Events(c, "run")[1].query, "CREATE (p:Person $properties)")
    /\ Events(c, "run")[1].params = << <<"properties", args[c].properties>> >>
    /\ Len(Events(c, "run")[1].answer.v.records) = 2
    /\ outcome[c].v = toObject(Events(c, "run")[1].answer.v.records[1])

\* C13: every tx.run of a createRelationship call receives a query that
\* contains MATCH startNodeMatch, then MATCH endNodeMatch, then
\* CREATE (a)-[r:type $properties]->(b) with the identifiers a, r and b
\* whatever identifiers the two match expressions use, and the parameter map of
\* the one key properties whose value is the properties argument, or an empty
\* map when the argument is absent.
C13_CreateRelationshipQuery ==
  \A c \in Calls :
    op[c] = "createRelationship" =>
      LET a == args[c]
          ran == Events(c, "run")
          created == "CREATE (a)-[r:" \o a.relationshipType \o " $properties]->(b)"
      IN  \A k \in 1..Len(ran) :
            /\ ContainsThen(ran[k].query, "MATCH " \o a.startNodeMatch,
                                          "MATCH " \o a.endNodeMatch)
            /\ ContainsThen(ran[k].query, "MATCH " \o a.endNodeMatch, created)
            /\ Len(ran[k].params) = 1
            /\ ran[k].params[1] =
                 <<"properties", IF "properties" \in DOMAIN a THEN a.properties ELSE <<>> >>

\* a createRelationship without properties whose start node is matched under
\* the identifier x has run a query that creates (a)-[r:ACTED_IN]->(b), with
\* an empty map under the key properties
C13_Witness ==
  \E c \in Calls :
    /\ op[c] = "createRelationship" /\ Count(c, "run") = 1
    /\ "properties" \notin DOMAIN args[c]
    /\ Contains(args[c].startNodeMatch, "(x:")
    /\ Contains(Events(c, "run")[1].query, "CREATE (a)-[r:ACTED_IN $properties]->(b)")
    /\ Events(c, "run")[1].params = << <<"properties", <<>> >> >>


\* the runs of the last invocation of the work function of call c
RunsOfLastAttempt(c) ==
  SelectSeq(Events(c, "run"), LAMBDA e : e.attempt = attempts[c])

\* C14 as stated: when the collaborator invoked the work function of a batch
\* more than once and the batch returns, the returned list has exactly one
\* entry per operation, entry k being the projected rows of the run of
\* operation k in the invocation that was committed: it holds no rows of a
\* run of an abandoned invocation.
C14_AsStated ==
  \A c \in Calls :
    (fn[c] = "batch" /\ attempts[c] > 1 /\ outcome[c].t = "return") =>
      LET ops == operations[c]
          ran == RunsOfLastAttempt(c)
      IN  /\ Len(outcome[c].v) = Len(ops)
          /\ Len(ran) = Len(ops)
          /\ \A k \in 1..Len(ops) :
               /\ Len(outcome[c].v[k]) = Len(ran[k].answer.v.records)
               /\ \A j \in 1..Len(ran[k].answer.v.records) :
                    outcome[c].v[k][j] = toObject(ran[k].answer.v.records[j])


\* the events of call c that are issued on its session once it is acquired
OnSession == { "executeRead", "executeWrite", "run", "close" }

\* the calls made so far stand in the order session, executeRead or
\* executeWrite, tx.run ..., close, all of them on the session of the call
EventsInOrder ==
  \A c \in Calls :
    LET events == log[c]
    IN  /\ \A k \in 1..Len(events) : events[k].ev = "session" <=> k = 1
        /\ \A k \in 1..Len(events) :
             events[k].ev \in {"executeRead", "executeWrite"} <=> k = 2
        /\ \A k \in 1..Len(events) :
             events[k].ev \in OnSession => Acquired(c) /\ events[k].s = session[c]
        /\ \A k \in 1..Len(events) : events[k].ev = "close" => k = Len(events)
        /\ Count(c, "close") > 0 => txResult[c].t \in {"return", "throw"}

\* a step that calls tx.run is taken while executeRead / executeWrite is
\* running, a step that calls close once it has returned or thrown
CallsInOrder ==
  \A c \in Calls :
    Len(log'[c]) > Len(log[c]) =>
      LET event == log'[c][Len(log'[c])]
      IN  /\ event.ev = "run" => txResult[c].t = "pending" /\ txResult'[c].t = "pending"
          /\ event.ev = "close" => txResult[c].t # "pending"

\* C15: the collaborator calls of a top-level call are, in this order,
\* driver.session(), one executeRead or executeWrite, the tx.run calls, and
\* session.close(): session() is the first call and the only one of its kind,
\* the transaction is started next, every tx.run is made on the session of the
\* call while that transaction is running, close is called only once
\* executeRead / executeWrite has returned or thrown, and nothing is called on
\* the session after close.
C15_EventOrder == []EventsInOrder /\ [][CallsInOrder]_vars

\* a batch of two operations that ran three times over two invocations of its
\* work function has closed its session last, after the transaction returned
C15_Witness ==
  \E c \in Calls :
    /\ fn[c] = "batch" /\ pc[c] = "done" /\ Len(log[c]) = 6
    /\ log[c][1].ev = "session" /\ log[c][2].ev = "executeRead"
    /\ \A k \in 3..5 : log[c][k].ev = "run"
    /\ log[c][6].ev = "close"
    /\ txResult[c].t = "return"


\* C17: a batch call that acquired its session starts exactly one transaction:
\* it invokes one of session.executeRead and session.executeWrite, once, before
\* any tx.run, whatever the number of its operations and of the invocations of
\* its work function, and every tx.run is made while that one invocation is
\* running, on the session it was made on.
C17_BatchOneTransaction ==
  \A c \in Calls :
    (fn[c] = "batch" /\ Acquired(c)) =>
      /\ Count(c, "executeRead") + Count(c, "executeWrite") = 1
      /\ Count(c, "executeRead") = 0 \/ Count(c, "executeWrite") = 0
      /\ log[c][2].ev \in {"executeRead", "executeWrite"}
      /\ \A k \in 1..Len(log[c]) :
           log[c][k].ev = "run" => k > 2 /\ log[c][k].s = log[c][2].s
      /\ pc[c] = "work" => txResult[c].t = "pending"

\* a batch of two operations, one reading and one creating, has settled after
\* one executeWrite, no executeRead and four runs over two invocations of its
\* work function
C17_Witness ==
  \E c \in Calls :
    /\ fn[c] = "batch" /\ pc[c] = "done" /\ Len(operations[c]) = 2
    /\ ~includes(operations[c][1].query, "CREATE")
    /\ includes(operations[c][2].query, "CREATE")
    /\ Count(c, "executeWrite") = 1 /\ Count(c, "executeRead") = 0
    /\ Count(c, "run") = 4 /\ attempts[c] = 2

\* the calls whose session.close() threw: they are done and their session was
\* not released
CloseFailed(c) == Acquired(c) /\ pc[c] = "done" /\ session[c] \in live

\* C18: when session.close() fails in a read, write or batch call, close was
\* called exactly once, as the last collaborator call, and the call rejects
\* with the error of close alone: when the transaction (or the projection) had
\* failed, that error is replaced and not delivered; when it had succeeded, no
\* result is returned.
C18_ReleaseFailureMasks ==
  \A c \in Calls :
    CloseFailed(c) =>
      /\ Count(c, "close") = 1
      /\ log[c][Len(log[c])].ev = "close"
      /\ completion[c].t \in {"return", "throw"}
      /\ outcome[c].t = "throw"
      /\ outcome[c].e.error = "CloseError"
      /\ outcome[c].e.at > Len(log[c])
      /\ completion[c].t = "throw" =>
           /\ completion[c].e.at <= Len(log[c])
           /\ outcome[c] # completion[c]

\* a batch whose run failed and whose close then failed too has rejected with
\* the error of close
C18_Witness ==
  \E c \in Calls :
    /\ fn[c] = "batch" /\ CloseFailed(c)
    /\ txResult[c].t = "throw" /\ txResult[c].e.error = "RunError"
    /\ completion[c] = txResult[c]
    /\ outcome[c].t = "throw" /\ outcome[c].e.error = "CloseError"
    /\ Count(c, "close") = 1


\* C20: a batch call with no operation that acquired its session invokes
\* session.executeRead once and session.executeWrite never, never invokes
\* tx.run, whatever the number of invocations of its work function, and has
\* called session.close() exactly once when it settles; when it returns, it
\* returns an empty list, and it does return when executeRead and close
\* both resolve.
C20_EmptyBatch ==
  \A c \in Calls :
    (fn[c] = "batch" /\ Len(operations[c]) = 0 /\ Acquired(c)) =>
      /\ Count(c, "session") = 1
      /\ Count(c, "executeRead") = 1
      /\ Count(c, "executeWrite") = 0
      /\ Count(c, "run") = 0
      /\ Count(c, "close") <= 1
      /\ pc[c] = "done" =>
           /\ Count(c, "close") = 1
           /\ outcome[c].t = "return" => outcome[c].v = <<>>
           /\ (txResult[c].t = "return" /\ ~CloseFailed(c)) => outcome[c] = Return(<<>>)

\* a batch with no operation has returned an empty list after one executeRead,
\* no run and one close
C20_Witness ==
  \E c \in Calls :
    /\ op[c] = "batch" /\ args[c].operations = <<>> /\ pc[c] = "done"
    /\ log[c] = << [ev |-> "session", s |-> session[c]],
                   [ev |-> "executeRead", s |-> session[c]],
                   [ev |-> "close", s |-> session[c]] >>
    /\ outcome[c] = Return(<<>>)
    /\ live = {}


\* the calls of close made on session s, by whatever call
RECURSIVE ClosesUpTo(_, _)
ClosesUpTo(s, n) ==
  IF n = 0 THEN 0
  ELSE ClosesUpTo(s, n - 1)
         + Len(SelectSeq(log[n], LAMBDA e : e.ev = "close" /\ e.s = s))

ClosesOn(s) == ClosesUpTo(s, NumCalls)

\* the calls that were issued and have settled
Finished(c) == pc[c] = "done"

\* C16: whatever the interleaving of the calls, the sessions of two calls are
\* different sessions; everything called on a session (executeRead /
\* executeWrite, tx.run, close) is called by the call that acquired it; close
\* is called on it at most once, not before its call has settled its
\* transaction and exactly once when its call has finished, however the other
\* calls ended; and once every call has finished, no session is left on which
\* close was not called: the sessions the driver has not released are those
\* whose close threw.
C16_ConcurrentCallsIndependent ==
  /\ \A c, d \in Calls :
       (c # d /\ Acquired(c) /\ Acquired(d)) => session[c] # session[d]
  /\ \A c \in Calls : \A k \in 1..Len(log[c]) :
       log[c][k].ev \in OnSession => Acquired(c) /\ log[c][k].s = session[c]
  /\ \A c \in Calls :
       Acquired(c) =>
         /\ ClosesOn(session[c]) = Count(c, "close")
         /\ ClosesOn(session[c]) <= 1
         /\ pc[c] \in {"exec", "work", "commit", "settled"} =>
              ClosesOn(session[c]) = 0 /\ session[c] \in live
         /\ Finished(c) => ClosesOn(session[c]) = 1
  /\ (\A c \in Calls : Finished(c)) =>
       /\ \A s \in 1..nextSession : ClosesOn(s) = 1
       /\ live = { session[c] : c \in { d \in Calls : CloseFailed(d) } }
       /\ \A c \in Calls :
            CloseFailed(c) => outcome[c] = Throw(Error("CloseError", Len(log[c]) + 1))

\* call 2 acquired its session first and is running its transaction; call 1
\* acquired its own afterwards, failed in its transaction and has closed its
\* session, leaving the session of call 2 open and untouched
C16_Witness ==
  /\ session[2] = 1 /\ session[1] = 2
  /\ pc[2] = "work" /\ Count(2, "close") = 0
  /\ Finished(1) /\ outcome[1].t = "throw" /\ outcome[1].e.error = "RunError"
  /\ Count(1, "close") = 1
  /\ live = {1}


\* C19: when every collaborator call that is pending is eventually answered, a
\* call that acquired a session eventually terminates (its promise resolves
\* or rejects), and when it has terminated session.close() has been called on
\* its session, once.
C19_AcquiredCallsTerminateClosed ==
  \A c \in Calls :
    Acquired(c) ~> (Finished(c) /\ outcome[c].t # "pending" /\ Count(c, "close") = 1)

\* a write whose executeWrite invoked the work function twice and then
\* rejected has terminated, its session closed
C19_Witness ==
  \E c \in Calls :
    /\ fn[c] = "write" /\ Acquired(c) /\ Finished(c)
    /\ attempts[c] = 2 /\ txResult[c].t = "throw"
    /\ outcome[c].t = "throw"
    /\ Count(c, "close") = 1 /\ session[c] \notin live

=============================================================================
